---- MODULE Spec2Model ----
(***************************************************************************)
(* XrayScanClient (src/src/Xray/XrayScanClient.ts): one call of graph(),   *)
(* which submits a scan with one POST and then polls GET scan/graph/<id>   *)
(* until 200, an unexpected status, a cancellation or MAX_ATTEMPTS polls.  *)
(*                                                                         *)
(* A step of the model is the code that runs between two await points of   *)
(* the async functions: JavaScript runs it without interleaving.  The      *)
(* transport (HttpClient.doAuthRequest), the timer behind delay() and the  *)
(* caller's cancel signal are the environment.                             *)
(*                                                                         *)
(* Optional values (T | undefined) are <<>> for undefined and <<v>> for v. *)
(* Strings built by concatenation are sequences of their pieces.           *)
(***************************************************************************)
EXTENDS Integers, Sequences, FiniteSets, TLC

Undefined == <<>>
Some(v) == <<v>>

\* ---- program constants ------------------------------------------------
scanGraphEndpoint == "api/v1/scan/graph"
SLEEP_INTERVAL_MILLISECONDS == 5000
\* variant: the loop bound off by one (i <= MAX_ATTEMPTS)
MAX_ATTEMPTS_OffByOne == 60 + 1
MAX_ATTEMPTS == 60

\* ---- inputs the environment can supply --------------------------------
\* request: undefined (absent) or a graph model object
Requests == {Undefined, Some("graph")}
\* projectKey: string | undefined
ProjectKeys == {Undefined, Some(""), Some("proj1")}
\* HTTP statuses the server can answer a poll with
Statuses == {200, 202, 404, 500}
\* status carried by a rejection: reason.response?.status
ReasonStatuses == {Undefined} \cup {Some(s) : s \in Statuses}
\* reason?.message
ReasonMessages == {Undefined, Some("Network Error")}
\* progress_percentage of a response body: absent or a number in 0..100
ProgressPercentages == {Undefined, Some(0), Some(40), Some(100)}
ScanIds == {"scan1", "scan2"}
\* IGraphResponse bodies delivered by the server
Bodies == [scan_id : {"scan1"}, progress_percentage : ProgressPercentages,
           licenses : {"MIT", "GPL"}]
\* the exception the caller's checkCanceled throws
CancelError == [name |-> "ScanCancellationError"]

VARIABLES
    request,             \* argument of graph()
    projectKey,          \* argument of graph()
    cancelRequested,     \* caller's cancel signal: checkCanceled throws iff set
    pc,                  \* "start", "awaitPost", "awaitGet", "delay", "done"
    i,                   \* loop counter of getScanGraphResults
    scanId,              \* scan_id of the POST response (argument of line 62)
    scanGraphUrl,        \* poll URL built by getScanGraphResults
    receivedStatus,      \* local of the current iteration
    message,             \* local of the current iteration
    response,            \* local of the current iteration
    progress,            \* percentage held by the progress sink
    setPercentageCalls,  \* number of progress.setPercentage calls so far
    lastSetBy,           \* "none", "poll" (line 100) or "finally" (line 43)
    inflight,            \* requests handed to the transport and not yet settled
    sent,                \* every request handed to the transport so far
    posts,               \* number of POST requests issued
    gets,                \* number of GET requests issued
    checkCanceledCalls,  \* number of checkCanceled() invocations
    delayCalls,          \* number of delay() invocations
    timers,              \* pending setTimeout timers
    result               \* the promise returned by graph()

vars == <<request, projectKey, cancelRequested, pc, i, scanId, scanGraphUrl,
          receivedStatus, message, response, progress, setPercentageCalls,
          lastSetBy, inflight, sent, posts, gets, checkCanceledCalls,
          delayCalls, timers, result>>

inputs == <<request, projectKey>>
locals == <<receivedStatus, message, response>>
sink == <<progress, setPercentageCalls, lastSetBy>>
network == <<inflight, sent, posts, gets>>

Pending == [state |-> "pending"]
Fulfilled(v) == [state |-> "fulfilled", value |-> v]
Rejected(e) == [state |-> "rejected", reason |-> e]

\* ---- pure parts of graph() ---------------------------------------------
\* variant: the guard of line 21 is missing
IsEmptyRequest_Never(req) == FALSE

\* line 21: !request
IsEmptyRequest(req) == req = Undefined

\* line 22: {} as IGraphResponse
EmptyResponse == [empty |-> TRUE]

\* variant: line 25 without the length test
projectProvided_NoLengthCheck(key) == key # Undefined

\* line 25
projectProvided(key) == key # Undefined /\ Len(key[1]) > 0

\* line 28: the POST url
submitUrl(key) ==
    <<scanGraphEndpoint>> \o
        (IF projectProvided(key) THEN <<"?project=", key[1]>> ELSE <<>>)

\* `${boolean}` in a template literal
BoolToString(b) == IF b THEN "true" ELSE "false"

\* variant: the url is built without the scanId argument
pollUrl_IgnoresScanId(id, includeVulnerabilities) ==
    <<scanGraphEndpoint, "?include_licenses=true",
      "&include_vulnerabilities=", BoolToString(includeVulnerabilities)>>

\* lines 68-73: the GET url
pollUrl(id, includeVulnerabilities) ==
    <<scanGraphEndpoint, "/", id, "?include_licenses=true",
      "&include_vulnerabilities=", BoolToString(includeVulnerabilities)>>

\* line 39: the includeVulnerabilities argument
includeVulnerabilitiesArg(key) == ~projectProvided(key)

\* lines 81-84
validateStatus(status) == status = 200 \/ status = 202

\* variant: line 94 tests the wrong status
isComplete_WrongStatus(st) == st = Some(201)

\* line 94
isComplete(st) == st = Some(200)

\* line 98
isInProgress(st) == st = Some(202)

\* line 99: truthiness of response.progress_percentage
hasProgress(body) ==
    body.progress_percentage # Undefined /\ body.progress_percentage[1] # 0

\* `${x}` of an optional string
MsgToString(m) == IF m = Undefined THEN "undefined" ELSE m[1]

\* variant: the message of the failure is left out of the error
unexpectedError_NoMessage(status, msg) ==
    IF status # Undefined /\ status[1] # 0
    THEN [name |-> "Error",
          message |-> <<"Received unexpected status '", ToString(status[1]),
                        "' from Xray">>]
    ELSE [name |-> "Error", message |-> <<"Received response from Xray">>]

\* variant: the status is left out of the error
unexpectedError_NoStatus(status, msg) ==
    [name |-> "Error",
     message |-> <<"Received response from Xray: ", MsgToString(msg)>>]

\* lines 103-106: the error thrown for a status that is neither 200 nor 202
unexpectedError(status, msg) ==
    IF status # Undefined /\ status[1] # 0
    THEN [name |-> "Error",
          message |-> <<"Received unexpected status '", ToString(status[1]),
                        "' from Xray: ", MsgToString(msg)>>]
    ELSE [name |-> "Error",
          message |-> <<"Received response from Xray: ", MsgToString(msg)>>]

\* line 111
timeoutError ==
    [name |-> "Error", message |-> <<"Xray get scan graph exceeded the timeout.">>]

\* reading a property of undefined
TypeError == [name |-> "TypeError"]

Request(method, url) == [method |-> method, url |-> url]

\* the sequence s without its first element equal to r
RECURSIVE Without(_, _)
Without(s, r) ==
    IF s = <<>> THEN <<>>
    ELSE IF Head(s) = r THEN Tail(s)
    ELSE <<Head(s)>> \o Without(Tail(s), r)

Init ==
    /\ request \in Requests
    /\ projectKey \in ProjectKeys
    /\ cancelRequested \in BOOLEAN
    /\ pc = "start"
    /\ i = 0
    /\ scanId = Undefined
    /\ scanGraphUrl = <<>>
    /\ receivedStatus = Undefined
    /\ message = Undefined
    /\ response = Undefined
    /\ progress = 0
    /\ setPercentageCalls = 0
    /\ lastSetBy = "none"
    /\ inflight = <<>>
    /\ sent = {}
    /\ posts = 0
    /\ gets = 0
    /\ checkCanceledCalls = 0
    /\ delayCalls = 0
    /\ timers = 0
    /\ result = Pending

\* variant: setPercentage(100) at the end of the try block instead of finally
Finally_OnlyOnSuccess(res) ==
    /\ IF res.state = "fulfilled"
       THEN /\ progress' = 100
            /\ setPercentageCalls' = setPercentageCalls + 1
            /\ lastSetBy' = "finally"
       ELSE UNCHANGED <<progress, setPercentageCalls, lastSetBy>>
    /\ result' = res
    /\ pc' = "done"

\* lines 42-44: the finally block runs, then the promise settles with res
Finally(res) ==
    /\ progress' = 100
    /\ setPercentageCalls' = setPercentageCalls + 1
    /\ lastSetBy' = "finally"
    /\ result' = res
    /\ pc' = "done"

\* variant: line 75 is missing, the GET is sent without a cancel check
LoopHead_NoCheck(iv, url, fl) ==
    /\ i' = iv
    /\ receivedStatus' = Undefined
    /\ message' = Undefined
    /\ response' = Undefined
    /\ inflight' = Append(fl, Request("GET", url))
    /\ sent' = sent \cup {Request("GET", url)}
    /\ gets' = gets + 1
    /\ pc' = "awaitGet"
    /\ UNCHANGED <<posts, sink, result, checkCanceledCalls>>

\* variant: the GET is handed to the transport before checkCanceled() runs
LoopHead_CheckAfterSend(iv, url, fl) ==
    /\ i' = iv
    /\ checkCanceledCalls' = checkCanceledCalls + 1
    /\ receivedStatus' = Undefined
    /\ message' = Undefined
    /\ response' = Undefined
    /\ inflight' = Append(fl, Request("GET", url))
    /\ sent' = sent \cup {Request("GET", url)}
    /\ gets' = gets + 1
    /\ UNCHANGED posts
    /\ IF cancelRequested
       THEN Finally(Rejected(CancelError))
       ELSE /\ pc' = "awaitGet"
            /\ UNCHANGED <<sink, result>>

\* lines 74-88: the head of iteration iv (iv < MAX_ATTEMPTS) up to the await of
\* the GET; url is the poll URL and fl the requests still in flight
LoopHead(iv, url, fl) ==
    /\ i' = iv
    /\ checkCanceledCalls' = checkCanceledCalls + 1
    /\ receivedStatus' = Undefined
    /\ message' = Undefined
    /\ response' = Undefined
    /\ IF cancelRequested
       THEN /\ Finally(Rejected(CancelError))
            /\ inflight' = fl
            /\ UNCHANGED <<sent, posts, gets>>
       ELSE /\ inflight' = Append(fl, Request("GET", url))
            /\ sent' = sent \cup {Request("GET", url)}
            /\ gets' = gets + 1
            /\ pc' = "awaitGet"
            /\ UNCHANGED <<posts, sink, result>>

\* variant: checkCanceled() runs before the test of line 21
graphEmpty_ChecksCancel ==
    /\ pc = "start"
    /\ IsEmptyRequest(request)
    /\ checkCanceledCalls' = checkCanceledCalls + 1
    /\ IF cancelRequested
       THEN Finally(Rejected(CancelError))
       ELSE Finally(Fulfilled(EmptyResponse))
    /\ UNCHANGED <<inputs, cancelRequested, i, scanId, scanGraphUrl, locals,
                   network, delayCalls, timers>>

\* lines 20-23: graph() called without a request
graphEmpty ==
    /\ pc = "start"
    /\ IsEmptyRequest(request)
    /\ Finally(Fulfilled(EmptyResponse))
    /\ UNCHANGED <<inputs, cancelRequested, i, scanId, scanGraphUrl, locals, network,
                   checkCanceledCalls, delayCalls, timers>>

\* variant: the POST is handed to the transport before checkCanceled() runs
graphSubmit_PostBeforeCheck ==
    /\ pc = "start"
    /\ ~IsEmptyRequest(request)
    /\ checkCanceledCalls' = checkCanceledCalls + 1
    /\ inflight' = Append(inflight, Request("POST", submitUrl(projectKey)))
    /\ sent' = sent \cup {Request("POST", submitUrl(projectKey))}
    /\ posts' = posts + 1
    /\ UNCHANGED gets
    /\ IF cancelRequested
       THEN Finally(Rejected(CancelError))
       ELSE /\ pc' = "awaitPost"
            /\ UNCHANGED <<sink, result>>
    /\ UNCHANGED <<inputs, cancelRequested, i, scanId, scanGraphUrl, locals,
                   delayCalls, timers>>

\* lines 20-34: graph() called with a request, up to the await of the POST
graphSubmit ==
    /\ pc = "start"
    /\ ~IsEmptyRequest(request)
    /\ checkCanceledCalls' = checkCanceledCalls + 1
    /\ IF cancelRequested
       THEN /\ Finally(Rejected(CancelError))
            /\ UNCHANGED network
       ELSE /\ inflight' = Append(inflight, Request("POST", submitUrl(projectKey)))
            /\ sent' = sent \cup {Request("POST", submitUrl(projectKey))}
            /\ posts' = posts + 1
            /\ pc' = "awaitPost"
            /\ UNCHANGED <<gets, sink, result>>
    /\ UNCHANGED <<inputs, cancelRequested, i, scanId, scanGraphUrl, locals,
                   delayCalls, timers>>

\* lines 34-41 and 68-88: the POST resolves with a body carrying scan_id;
\* getScanGraphResults starts and runs to its first await
postResolve ==
    /\ pc = "awaitPost"
    /\ \E id \in ScanIds :
        LET url == pollUrl(id, includeVulnerabilitiesArg(projectKey))
        IN  /\ scanId' = Some(id)
            /\ scanGraphUrl' = url
            /\ LoopHead(0, url,
                        Without(inflight, Request("POST", submitUrl(projectKey))))
    /\ UNCHANGED <<inputs, cancelRequested, delayCalls, timers>>

\* variant: the rejection of the POST is caught and the polling starts
\* without a scan identifier
postReject_Swallowed ==
    /\ pc = "awaitPost"
    /\ LET url == pollUrl("undefined", includeVulnerabilitiesArg(projectKey))
       IN  /\ scanGraphUrl' = url
           /\ LoopHead(0, url,
                       Without(inflight, Request("POST", submitUrl(projectKey))))
    /\ UNCHANGED <<inputs, cancelRequested, scanId, delayCalls, timers>>

\* line 34: the POST rejects; the rejection leaves graph() through finally
postReject ==
    /\ pc = "awaitPost"
    /\ \E rs \in ReasonStatuses, m \in ReasonMessages :
        Finally(Rejected([name |-> "RequestError", status |-> rs, message |-> m]))
    /\ inflight' = Without(inflight, Request("POST", submitUrl(projectKey)))
    /\ UNCHANGED <<inputs, cancelRequested, i, scanId, scanGraphUrl, locals, sent, posts,
                   gets, checkCanceledCalls, delayCalls, timers>>

\* variant: line 109 without await: the timer is started and the loop goes
\* straight on to its next iteration
AfterGet_DelayNotAwaited(st, msg, resp) ==
    /\ IF isComplete(st)
       THEN /\ Finally(Fulfilled(resp))
            /\ inflight' = Without(inflight, Request("GET", scanGraphUrl))
            /\ receivedStatus' = st /\ message' = msg /\ response' = resp
            /\ UNCHANGED <<i, sent, gets, checkCanceledCalls, delayCalls, timers>>
       ELSE IF isInProgress(st) /\ resp # Undefined
       THEN /\ delayCalls' = delayCalls + 1
            /\ timers' = timers + 1
            /\ i' = i + 1
            /\ receivedStatus' = Undefined /\ message' = Undefined
            /\ response' = Undefined
            /\ IF i + 1 < MAX_ATTEMPTS /\ ~cancelRequested
               THEN /\ checkCanceledCalls' = checkCanceledCalls + 1
                    /\ inflight' = Append(Without(inflight, Request("GET", scanGraphUrl)),
                                          Request("GET", scanGraphUrl))
                    /\ gets' = gets + 1
                    /\ pc' = "awaitGet"
                    /\ IF hasProgress(resp[1])
                       THEN /\ progress' = resp[1].progress_percentage[1]
                            /\ setPercentageCalls' = setPercentageCalls + 1
                            /\ lastSetBy' = "poll"
                       ELSE UNCHANGED sink
                    /\ UNCHANGED <<sent, result>>
               ELSE /\ Finally(Rejected(IF i + 1 < MAX_ATTEMPTS THEN CancelError
                                                              ELSE timeoutError))
                    /\ inflight' = Without(inflight, Request("GET", scanGraphUrl))
                    /\ UNCHANGED <<sent, gets, checkCanceledCalls>>
       ELSE /\ Finally(Rejected(IF isInProgress(st) THEN TypeError
                                                    ELSE unexpectedError(st, msg)))
            /\ inflight' = Without(inflight, Request("GET", scanGraphUrl))
            /\ receivedStatus' = st /\ message' = msg /\ response' = resp
            /\ UNCHANGED <<i, sent, gets, checkCanceledCalls, delayCalls, timers>>
    /\ UNCHANGED <<inputs, cancelRequested, scanId, scanGraphUrl, posts>>

\* variant: after the 202 of the last attempt the timeout is thrown without
\* the sleep
AfterGet_NoSleepOnLast(st, msg, resp) ==
    /\ receivedStatus' = st
    /\ message' = msg
    /\ response' = resp
    /\ inflight' = Without(inflight, Request("GET", scanGraphUrl))
    /\ IF isComplete(st)
       THEN /\ Finally(Fulfilled(resp))
            /\ UNCHANGED <<i, delayCalls, timers>>
       ELSE IF isInProgress(st)
       THEN IF resp = Undefined
            THEN /\ Finally(Rejected(TypeError))
                 /\ UNCHANGED <<i, delayCalls, timers>>
            ELSE IF i + 1 < MAX_ATTEMPTS
            THEN /\ IF hasProgress(resp[1])
                    THEN /\ progress' = resp[1].progress_percentage[1]
                         /\ setPercentageCalls' = setPercentageCalls + 1
                         /\ lastSetBy' = "poll"
                    ELSE UNCHANGED sink
                 /\ delayCalls' = delayCalls + 1
                 /\ timers' = timers + 1
                 /\ pc' = "delay"
                 /\ UNCHANGED <<i, result>>
            ELSE /\ i' = i + 1
                 /\ Finally(Rejected(timeoutError))
                 /\ UNCHANGED <<delayCalls, timers>>
       ELSE /\ Finally(Rejected(unexpectedError(st, msg)))
            /\ UNCHANGED <<i, delayCalls, timers>>
    /\ UNCHANGED <<inputs, cancelRequested, scanId, scanGraphUrl, sent, posts, gets,
                   checkCanceledCalls>>

\* lines 93-112 after the await of line 87: st, msg and resp are the values
\* of receivedStatus, message and response
AfterGet(st, msg, resp) ==
    /\ receivedStatus' = st
    /\ message' = msg
    /\ response' = resp
    /\ inflight' = Without(inflight, Request("GET", scanGraphUrl))
    /\ IF isComplete(st)
       THEN /\ Finally(Fulfilled(resp))
            /\ UNCHANGED <<delayCalls, timers>>
       ELSE IF isInProgress(st)
       THEN IF resp = Undefined
            THEN /\ Finally(Rejected(TypeError))
                 /\ UNCHANGED <<delayCalls, timers>>
            ELSE /\ IF hasProgress(resp[1])
                    THEN /\ progress' = resp[1].progress_percentage[1]
                         /\ setPercentageCalls' = setPercentageCalls + 1
                         /\ lastSetBy' = "poll"
                    ELSE UNCHANGED sink
                 /\ delayCalls' = delayCalls + 1
                 /\ timers' = timers + 1
                 /\ pc' = "delay"
                 /\ UNCHANGED result
       ELSE /\ Finally(Rejected(unexpectedError(st, msg)))
            /\ UNCHANGED <<delayCalls, timers>>
    /\ UNCHANGED <<inputs, cancelRequested, i, scanId, scanGraphUrl, sent, posts, gets,
                   checkCanceledCalls>>

\* lines 81-88: the transport calls validateStatus(status), which accepts it,
\* and resolves with the response body
getResolve ==
    /\ pc = "awaitGet"
    /\ \E status \in Statuses, body \in Bodies :
        /\ validateStatus(status)
        /\ AfterGet(Some(status), Undefined, Some(body))

\* lines 89-92: the transport rejects; the catch handler takes the status and
\* the message from the reason and the await yields undefined
getReject ==
    /\ pc = "awaitGet"
    /\ \E rs \in ReasonStatuses, m \in ReasonMessages :
        AfterGet(rs, m, Undefined)

\* variant: the loop counter is never advanced (for (;;) without i++)
delayElapsed_NoIncrement ==
    /\ pc = "delay"
    /\ timers > 0
    /\ timers' = timers - 1
    /\ IF i < MAX_ATTEMPTS
       THEN LoopHead(i, scanGraphUrl, inflight)
       ELSE /\ i' = i
            /\ Finally(Rejected(timeoutError))
            /\ UNCHANGED <<locals, network, checkCanceledCalls>>
    /\ UNCHANGED <<inputs, cancelRequested, scanId, scanGraphUrl, delayCalls>>

\* variant: the loop counter advances by two (a second i++ in the body)
delayElapsed_SkipsAttempt ==
    /\ pc = "delay"
    /\ timers > 0
    /\ timers' = timers - 1
    /\ IF i + 2 < MAX_ATTEMPTS
       THEN LoopHead(i + 2, scanGraphUrl, inflight)
       ELSE /\ i' = MAX_ATTEMPTS
            /\ Finally(Rejected(timeoutError))
            /\ UNCHANGED <<locals, network, checkCanceledCalls>>
    /\ UNCHANGED <<inputs, cancelRequested, scanId, scanGraphUrl, delayCalls>>

\* lines 109-111 and 74-88: the timer of delay() fires; the loop goes on
\* with the next iteration or, after the last one, throws the timeout
delayElapsed ==
    /\ pc = "delay"
    /\ timers > 0
    /\ timers' = timers - 1
    /\ IF i + 1 < MAX_ATTEMPTS
       THEN LoopHead(i + 1, scanGraphUrl, inflight)
       ELSE /\ i' = i + 1
            /\ Finally(Rejected(timeoutError))
            /\ UNCHANGED <<locals, network, checkCanceledCalls>>
    /\ UNCHANGED <<inputs, cancelRequested, scanId, scanGraphUrl, delayCalls>>

\* the caller raises its cancel signal while the call is suspended
requestCancel ==
    /\ pc \in {"awaitPost", "awaitGet", "delay"}
    /\ ~cancelRequested
    /\ cancelRequested' = TRUE
    /\ UNCHANGED <<inputs, pc, i, scanId, scanGraphUrl, locals, sink, network,
                   checkCanceledCalls, delayCalls, timers, result>>

Next ==
    \/ graphEmpty
    \/ graphSubmit
    \/ postResolve
    \/ postReject
    \/ getResolve
    \/ getReject
    \/ delayElapsed
    \/ requestCancel

Spec == Init /\ [][Next]_vars

\* The call is started, every request handed to the transport is eventually
\* resolved or rejected, and every timer eventually fires.
FairSpec ==
    /\ Spec
    /\ WF_vars(graphEmpty)
    /\ WF_vars(graphSubmit)
    /\ WF_vars(postResolve \/ postReject)
    /\ WF_vars(getResolve \/ getReject)
    /\ WF_vars(delayElapsed)

TypeOK ==
    /\ request \in Requests
    /\ projectKey \in ProjectKeys
    /\ cancelRequested \in BOOLEAN
    /\ pc \in {"start", "awaitPost", "awaitGet", "delay", "done"}
    /\ i \in 0..MAX_ATTEMPTS
    /\ progress \in 0..100
    /\ lastSetBy \in {"none", "poll", "finally"}
    /\ result.state \in {"pending", "fulfilled", "rejected"}

\* ---- several calls on one client -------------------------------------
\* XrayScanClient has two fields, httpClient and logger, both readonly (line
\* 11); everything else is a parameter or a local of graph() and
\* getScanGraphResults().  In SpecConc every variable holds one value per
\* call: v[c] is what v is in Spec for the call c, and inflight[c] are the
\* requests of c pending in the shared transport.  The steps of the calls
\* interleave at their await points.  setPercentageCalls is not counted here.
Calls == {"a", "b"}

\* the service answers every POST with an identifier of its own
ScanIdOf(c) == IF c = "a" THEN "scan1" ELSE "scan2"
ProjectKeyOf(c) == IF c = "a" THEN Undefined ELSE Some("proj1")
ConcBodies ==
    {b \in Bodies : b.progress_percentage \in {Undefined, Some(40)}
                    /\ b.licenses = "MIT"}
ConcReasonStatuses == {Undefined, Some(500)}
ConcReasonMessage == Some("Network Error")

Put(f, c, v) == [f EXCEPT ![c] = v]

InitConc ==
    /\ request \in [Calls -> Requests]
    /\ projectKey = [c \in Calls |-> ProjectKeyOf(c)]
    /\ cancelRequested \in [Calls -> BOOLEAN]
    /\ pc = [c \in Calls |-> "start"]
    /\ i = [c \in Calls |-> 0]
    /\ scanId = [c \in Calls |-> Undefined]
    /\ scanGraphUrl = [c \in Calls |-> <<>>]
    /\ receivedStatus = [c \in Calls |-> Undefined]
    /\ message = [c \in Calls |-> Undefined]
    /\ response = [c \in Calls |-> Undefined]
    /\ progress = [c \in Calls |-> 0]
    /\ setPercentageCalls = [c \in Calls |-> 0]
    /\ lastSetBy = [c \in Calls |-> "none"]
    /\ inflight = [c \in Calls |-> <<>>]
    /\ sent = [c \in Calls |-> {}]
    /\ posts = [c \in Calls |-> 0]
    /\ gets = [c \in Calls |-> 0]
    /\ checkCanceledCalls = [c \in Calls |-> 0]
    /\ delayCalls = [c \in Calls |-> 0]
    /\ timers = [c \in Calls |-> 0]
    /\ result = [c \in Calls |-> Pending]

\* lines 42-44 for the call c
FinallyOf(c, res) ==
    /\ progress' = Put(progress, c, 100)
    /\ lastSetBy' = Put(lastSetBy, c, "finally")
    /\ result' = Put(result, c, res)
    /\ pc' = Put(pc, c, "done")

\* variant: the loop counter is a field of the client instead of a local of
\* getScanGraphResults, so all calls share it
LoopHeadOf_SharedCounter(c, iv, url, fl) ==
    /\ i' = [d \in Calls |-> iv]
    /\ checkCanceledCalls' = Put(checkCanceledCalls, c, checkCanceledCalls[c] + 1)
    /\ receivedStatus' = Put(receivedStatus, c, Undefined)
    /\ message' = Put(message, c, Undefined)
    /\ response' = Put(response, c, Undefined)
    /\ IF cancelRequested[c]
       THEN /\ FinallyOf(c, Rejected(CancelError))
            /\ inflight' = Put(inflight, c, fl)
            /\ UNCHANGED <<sent, posts, gets>>
       ELSE /\ inflight' = Put(inflight, c, Append(fl, Request("GET", url)))
            /\ sent' = Put(sent, c, sent[c] \cup {Request("GET", url)})
            /\ gets' = Put(gets, c, gets[c] + 1)
            /\ pc' = Put(pc, c, "awaitGet")
            /\ UNCHANGED <<posts, progress, lastSetBy, result>>

\* lines 74-88 for the call c
LoopHeadOf(c, iv, url, fl) ==
    /\ i' = Put(i, c, iv)
    /\ checkCanceledCalls' = Put(checkCanceledCalls, c, checkCanceledCalls[c] + 1)
    /\ receivedStatus' = Put(receivedStatus, c, Undefined)
    /\ message' = Put(message, c, Undefined)
    /\ response' = Put(response, c, Undefined)
    /\ IF cancelRequested[c]
       THEN /\ FinallyOf(c, Rejected(CancelError))
            /\ inflight' = Put(inflight, c, fl)
            /\ UNCHANGED <<sent, posts, gets>>
       ELSE /\ inflight' = Put(inflight, c, Append(fl, Request("GET", url)))
            /\ sent' = Put(sent, c, sent[c] \cup {Request("GET", url)})
            /\ gets' = Put(gets, c, gets[c] + 1)
            /\ pc' = Put(pc, c, "awaitGet")
            /\ UNCHANGED <<posts, progress, lastSetBy, result>>

\* lines 20-23 for the call c
graphEmptyOf(c) ==
    /\ pc[c] = "start"
    /\ IsEmptyRequest(request[c])
    /\ FinallyOf(c, Fulfilled(EmptyResponse))
    /\ UNCHANGED <<inputs, cancelRequested, i, scanId, scanGraphUrl, locals,
                   network, checkCanceledCalls, delayCalls, timers,
                   setPercentageCalls>>

\* lines 20-34 for the call c
graphSubmitOf(c) ==
    /\ pc[c] = "start"
    /\ ~IsEmptyRequest(request[c])
    /\ checkCanceledCalls' = Put(checkCanceledCalls, c, checkCanceledCalls[c] + 1)
    /\ IF cancelRequested[c]
       THEN /\ FinallyOf(c, Rejected(CancelError))
            /\ UNCHANGED network
       ELSE /\ inflight' = Put(inflight, c,
                  Append(inflight[c], Request("POST", submitUrl(projectKey[c]))))
            /\ sent' = Put(sent, c,
                  sent[c] \cup {Request("POST", submitUrl(projectKey[c]))})
            /\ posts' = Put(posts, c, posts[c] + 1)
            /\ pc' = Put(pc, c, "awaitPost")
            /\ UNCHANGED <<gets, progress, lastSetBy, result>>
    /\ UNCHANGED <<inputs, cancelRequested, i, scanId, scanGraphUrl, locals,
                   delayCalls, timers, setPercentageCalls>>

\* lines 34-41 and 68-88 for the call c
postResolveOf(c) ==
    /\ pc[c] = "awaitPost"
    /\ LET url == pollUrl(ScanIdOf(c), includeVulnerabilitiesArg(projectKey[c]))
       IN  /\ scanId' = Put(scanId, c, Some(ScanIdOf(c)))
           /\ scanGraphUrl' = Put(scanGraphUrl, c, url)
           /\ LoopHeadOf(c, 0, url,
                  Without(inflight[c], Request("POST", submitUrl(projectKey[c]))))
    /\ UNCHANGED <<inputs, cancelRequested, delayCalls, timers,
                   setPercentageCalls>>

\* line 34 for the call c: the POST rejects
postRejectOf(c) ==
    /\ pc[c] = "awaitPost"
    /\ \E rs \in ConcReasonStatuses :
        FinallyOf(c, Rejected([name |-> "RequestError", status |-> rs,
                               message |-> ConcReasonMessage]))
    /\ inflight' = Put(inflight, c,
          Without(inflight[c], Request("POST", submitUrl(projectKey[c]))))
    /\ UNCHANGED <<inputs, cancelRequested, i, scanId, scanGraphUrl, locals,
                   sent, posts, gets, checkCanceledCalls, delayCalls, timers,
                   setPercentageCalls>>

\* lines 93-112 for the call c
AfterGetOf(c, st, msg, resp) ==
    /\ receivedStatus' = Put(receivedStatus, c, st)
    /\ message' = Put(message, c, msg)
    /\ response' = Put(response, c, resp)
    /\ inflight' = Put(inflight, c,
          Without(inflight[c], Request("GET", scanGraphUrl[c])))
    /\ IF isComplete(st)
       THEN /\ FinallyOf(c, Fulfilled(resp))
            /\ UNCHANGED <<delayCalls, timers>>
       ELSE IF isInProgress(st)
       THEN IF resp = Undefined
            THEN /\ FinallyOf(c, Rejected(TypeError))
                 /\ UNCHANGED <<delayCalls, timers>>
            ELSE /\ IF hasProgress(resp[1])
                    THEN /\ progress' =
                              Put(progress, c, resp[1].progress_percentage[1])
                         /\ lastSetBy' = Put(lastSetBy, c, "poll")
                    ELSE UNCHANGED <<progress, lastSetBy>>
                 /\ delayCalls' = Put(delayCalls, c, delayCalls[c] + 1)
                 /\ timers' = Put(timers, c, timers[c] + 1)
                 /\ pc' = Put(pc, c, "delay")
                 /\ UNCHANGED result
       ELSE /\ FinallyOf(c, Rejected(unexpectedError(st, msg)))
            /\ UNCHANGED <<delayCalls, timers>>
    /\ UNCHANGED <<inputs, cancelRequested, i, scanId, scanGraphUrl, sent, posts,
                   gets, checkCanceledCalls, setPercentageCalls>>

\* lines 81-88 for the call c
getResolveOf(c) ==
    /\ pc[c] = "awaitGet"
    /\ \E status \in Statuses, body \in ConcBodies :
        /\ validateStatus(status)
        /\ AfterGetOf(c, Some(status), Undefined, Some(body))

\* lines 89-92 for the call c
getRejectOf(c) ==
    /\ pc[c] = "awaitGet"
    /\ \E rs \in ConcReasonStatuses :
        AfterGetOf(c, rs, ConcReasonMessage, Undefined)

\* lines 109-116 and 74-88 for the call c: its timer fires; the timer is a
\* setTimeout, so that no call waits for the timer of another
delayElapsedOf(c) ==
    /\ pc[c] = "delay"
    /\ timers[c] > 0
    /\ timers' = Put(timers, c, timers[c] - 1)
    /\ IF i[c] + 1 < MAX_ATTEMPTS
       THEN LoopHeadOf(c, i[c] + 1, scanGraphUrl[c], inflight[c])
       ELSE /\ i' = Put(i, c, i[c] + 1)
            /\ FinallyOf(c, Rejected(timeoutError))
            /\ UNCHANGED <<locals, network, checkCanceledCalls>>
    /\ UNCHANGED <<inputs, cancelRequested, scanId, scanGraphUrl, delayCalls,
                   setPercentageCalls>>

\* the caller of c raises the cancel signal of c
requestCancelOf(c) ==
    /\ pc[c] \in {"awaitPost", "awaitGet", "delay"}
    /\ ~cancelRequested[c]
    /\ cancelRequested' = Put(cancelRequested, c, TRUE)
    /\ UNCHANGED <<inputs, pc, i, scanId, scanGraphUrl, locals, sink, network,
                   checkCanceledCalls, delayCalls, timers, result>>

\* the steps of the call c
NextOf(c) ==
    \/ graphEmptyOf(c)
    \/ graphSubmitOf(c)
    \/ postResolveOf(c)
    \/ postRejectOf(c)
    \/ getResolveOf(c)
    \/ getRejectOf(c)
    \/ delayElapsedOf(c)
    \/ requestCancelOf(c)

NextConc ==
    \/ \E c \in Calls : graphEmptyOf(c)
    \/ \E c \in Calls : graphSubmitOf(c)
    \/ \E c \in Calls : postResolveOf(c)
    \/ \E c \in Calls : postRejectOf(c)
    \/ \E c \in Calls : getResolveOf(c)
    \/ \E c \in Calls : getRejectOf(c)
    \/ \E c \in Calls : delayElapsedOf(c)
    \/ \E c \in Calls : requestCancelOf(c)

SpecConc == InitConc /\ [][NextConc]_vars

\* ---- properties ---------------------------------------------------------

\* the call has settled: nothing of it runs any more
Quiet ==
    UNCHANGED <<pc, result, sink, network, checkCanceledCalls, delayCalls, timers>>

\* the pieces of `part` occur next to each other in `url`
Carries(url, part) ==
    \E k \in 0..(Len(url) - Len(part)) :
        \A j \in 1..Len(part) : url[k + j] = part[j]

\* C1: whatever the outcome, when the promise of graph() has settled the
\* progress sink holds 100, written by the finally block, and that write is
\* the last one: the sink is not written again afterwards.
C1_ProgressForcedTo100 ==
    [][/\ (result'.state # "pending") =>
            /\ pc' = "done"
            /\ progress' = 100
            /\ lastSetBy' = "finally"
            /\ setPercentageCalls' >= 1
       /\ (result.state # "pending") => UNCHANGED sink
       /\ (result.state = "pending" /\ result'.state # "pending") =>
            setPercentageCalls' = setPercentageCalls + 1]_vars

\* C1 witness: a call that wrote progress while polling and then timed out
C1_Witness ==
    /\ result = Rejected(timeoutError)
    /\ setPercentageCalls > 1
    /\ progress = 100

\* C2: when checkCanceled() throws at the head of a poll iteration (attempt
\* i' + 1), no GET is handed to the transport for that attempt or later, the
\* promise rejects with the very error checkCanceled threw, and the sink
\* holds 100.
C2_CancelOnPollAttempt ==
    [][/\ (/\ pc \in {"awaitPost", "delay"}
           /\ checkCanceledCalls' = checkCanceledCalls + 1
           /\ cancelRequested) =>
            /\ gets' = gets
            /\ gets' = i'
            /\ sent' = sent
            /\ \A k \in 1..Len(inflight') : inflight'[k].method # "GET"
            /\ result' = Rejected(CancelError)
            /\ progress' = 100
            /\ pc' = "done"
       /\ (pc = "done") => Quiet]_vars

\* C2 witness: cancellation seen at the head of the last attempt (k = 60)
C2_Witness ==
    /\ result = Rejected(CancelError)
    /\ posts = 1
    /\ i = 59
    /\ gets = 59

\* C3: a call never issues more than 60 GETs, and after 60 in-progress (202)
\* answers it is in its last sleep or has failed with the timeout error,
\* with exactly 60 GETs issued.
C3_TimeoutAfter60 ==
    /\ gets <= 60
    /\ delayCalls = 60 =>
        /\ gets = 60
        /\ \/ pc = "delay" /\ timers = 1
           \/ pc = "done" /\ result = Rejected(timeoutError)

\* C3 witness: the timeout has been thrown
C3_Witness ==
    /\ result = Rejected(timeoutError)
    /\ gets = 60
    /\ delayCalls = 60

\* C4: the step that receives status 200 ends the call: no sleep, no GET and
\* no checkCanceled() follow, and when the transport delivered the response
\* the promise fulfils with exactly that response.
C4_FirstOkTerminates ==
    [][/\ (pc = "awaitGet" /\ receivedStatus' = Some(200)) =>
            /\ pc' = "done"
            /\ result'.state = "fulfilled"
            /\ result'.value = response'
            /\ gets' = gets
            /\ delayCalls' = delayCalls
            /\ timers' = 0
            /\ checkCanceledCalls' = checkCanceledCalls
            /\ inflight' = <<>>
       /\ (pc = "done") => Quiet]_vars

\* C4 witness: a 200 delivered after some 202s, its body returned
C4_Witness ==
    /\ pc = "done"
    /\ receivedStatus = Some(200)
    /\ response # Undefined
    /\ response[1].licenses = "GPL"
    /\ result = Fulfilled(response)
    /\ delayCalls = 2
    /\ gets = 3

\* C5 (as stated): a delivered 202 response with a progress_percentage field
\* sets the sink to exactly that value before the sleep starts; one without
\* the field does not write to the sink.
C5_ProgressForwarded ==
    [][(/\ pc = "awaitGet"
        /\ receivedStatus' = Some(202)
        /\ response' # Undefined) =>
            IF response'[1].progress_percentage # Undefined
            THEN /\ progress' = response'[1].progress_percentage[1]
                 /\ pc' = "delay"
            ELSE /\ UNCHANGED sink
                 /\ pc' = "delay"]_vars

\* C6: the step that receives a status other than 200 and 202 ends the call
\* with an error whose message names that status; no sleep, no GET and no
\* checkCanceled() follow.
C6_UnexpectedStatusFails ==
    [][/\ (/\ pc = "awaitGet"
           /\ receivedStatus' # Undefined
           /\ receivedStatus' \notin {Some(200), Some(202)}) =>
            /\ pc' = "done"
            /\ result'.state = "rejected"
            /\ result'.reason.name = "Error"
            /\ \E k \in 1..Len(result'.reason.message) :
                   result'.reason.message[k] = ToString(receivedStatus'[1])
            /\ gets' = gets
            /\ delayCalls' = delayCalls
            /\ timers' = 0
            /\ checkCanceledCalls' = checkCanceledCalls
            /\ inflight' = <<>>
       /\ (pc = "done") => Quiet]_vars

\* C6 witness: status 500 on a later attempt
C6_Witness ==
    /\ pc = "done"
    /\ receivedStatus = Some(500)
    /\ result.state = "rejected"
    /\ i = 2
    /\ gets = 3

\* C7: a call without a request hands nothing to the transport, fulfils
\* with the empty response object and leaves the sink at 100.
C7_EmptyRequest ==
    (request = Undefined) =>
        /\ sent = {}
        /\ inflight = <<>>
        /\ posts = 0
        /\ gets = 0
        /\ pc \in {"start", "done"}
        /\ pc = "done" =>
            /\ result = Fulfilled(EmptyResponse)
            /\ progress = 100

\* C7 witness: the call without a request has returned
C7_Witness ==
    /\ request = Undefined
    /\ pc = "done"
    /\ result.state = "fulfilled"

\* C8: when checkCanceled() throws at the check before the submit of a call
\* that has a request, the promise rejects with that error and neither the
\* POST nor any GET is ever handed to the transport.
C8_CancelBeforeSubmit ==
    [][/\ (pc = "start" /\ request # Undefined /\ cancelRequested) =>
            /\ checkCanceledCalls' = 1
            /\ result' = Rejected(CancelError)
            /\ pc' = "done"
            /\ posts' = 0
            /\ gets' = 0
            /\ sent' = {}
            /\ inflight' = <<>>
       /\ (pc = "done") => Quiet]_vars

\* C8 witness: cancelled before the submit
C8_Witness ==
    /\ request # Undefined
    /\ result = Rejected(CancelError)
    /\ checkCanceledCalls = 1
    /\ posts = 0

\* the caller supplied a non-empty context key
KeySupplied == projectKey # Undefined /\ projectKey[1] # ""

\* C9: with a non-empty projectKey every POST url carries ?project=<key> and
\* every GET url carries include_vulnerabilities=false; without one no POST
\* url has a project parameter and every GET url carries
\* include_vulnerabilities=true; all GETs of the call use one url.
C9_ContextKeyUrls ==
    /\ \A r \in sent :
        /\ r.method = "POST" =>
            IF KeySupplied
            THEN Carries(r.url, <<"?project=", projectKey[1]>>)
            ELSE \A k \in 1..Len(r.url) : r.url[k] # "?project="
        /\ r.method = "GET" =>
            /\ Carries(r.url, <<"&include_vulnerabilities=",
                                IF KeySupplied THEN "false" ELSE "true">>)
            /\ ~Carries(r.url, <<"&include_vulnerabilities=",
                                 IF KeySupplied THEN "true" ELSE "false">>)
    /\ Cardinality({r \in sent : r.method = "GET"}) <= 1

\* C9 witness: an empty projectKey and several polls
C9_Witness ==
    /\ projectKey = Some("")
    /\ gets = 3
    /\ posts = 1

\* C10: at most one request of the call is outstanding, none is outstanding
\* or issued while a delay() timer is pending, and a GET after the first is
\* issued only by the step in which the timer of the previous sleep fires,
\* the previous GET having been answered.
C10_Sequential ==
    [][/\ Len(inflight') <= 1
       /\ timers' <= 1
       /\ timers' > 0 => inflight' = <<>>
       /\ (gets' > gets \/ posts' > posts) => (timers' = 0 /\ Len(inflight') = 1)
       /\ (gets' > gets /\ gets > 0) =>
            /\ pc = "delay"
            /\ timers = 1
            /\ inflight = <<>>
            /\ delayCalls = gets]_vars

\* C10 witness: a second GET in flight after one sleep
C10_Witness ==
    /\ pc = "awaitGet"
    /\ gets = 2
    /\ delayCalls = 1
    /\ Len(inflight) = 1

\* C12: checkCanceled() is invoked once per step at most, and only in the
\* step that would issue the POST or a GET: the step invokes it exactly when
\* it either issues one request (signal not set) or ends the call with the
\* cancel error (signal set).  No step that starts, spends or leaves a sleep
\* without issuing a GET invokes it, and a signal set during a sleep leaves
\* the call pending until the timer has fired.
C12_CancelCheckPoints ==
    [][/\ checkCanceledCalls' \in {checkCanceledCalls, checkCanceledCalls + 1}
       /\ (checkCanceledCalls' = checkCanceledCalls + 1) =>
            /\ pc \in {"start", "awaitPost", "delay"}
            /\ timers' = 0
            /\ IF cancelRequested
               THEN /\ result' = Rejected(CancelError)
                    /\ posts' = posts
                    /\ gets' = gets
               ELSE /\ (posts' - posts) + (gets' - gets) = 1
                    /\ delayCalls' = delayCalls
                    /\ result' = Pending
       /\ (posts' # posts \/ gets' # gets) =>
            /\ checkCanceledCalls' = checkCanceledCalls + 1
            /\ ~cancelRequested
       /\ (pc = "start" /\ posts' = posts + 1) => checkCanceledCalls' = 1
       /\ (pc' = "delay") => checkCanceledCalls' = checkCanceledCalls
       /\ (pc = "delay" /\ timers' = timers) =>
            /\ checkCanceledCalls' = checkCanceledCalls
            /\ result' = Pending
       /\ checkCanceledCalls' = posts' + gets'
            + (IF result' = Rejected(CancelError) THEN 1 ELSE 0)]_vars

\* C12 witness: the cancel signal is set during a sleep and not yet seen
C12_Witness ==
    /\ pc = "delay"
    /\ timers = 1
    /\ cancelRequested
    /\ result = Pending
    /\ checkCanceledCalls = 3
    /\ gets = 2

\* the state of the machine of section 4.1: its name and its rank in the
\* order Submitting < Polling < terminal
Phase ==
    CASE pc \in {"start", "awaitPost"} -> "Submitting"
      [] pc \in {"awaitGet", "delay"} -> "Polling"
      [] pc = "done" /\ result.state = "fulfilled" -> "Complete"
      [] pc = "done" /\ result = Rejected(CancelError) -> "Canceled"
      [] pc = "done" /\ result = Rejected(timeoutError) -> "TimedOut"
      [] OTHER -> "Failed"

Terminal == {"Complete", "Failed", "TimedOut", "Canceled"}

\* C13: the call moves Submitting -> Polling(attempt 1..60) -> terminal and
\* never backwards (Submitting may end directly in a terminal state); the
\* attempt number i + 1 starts at 1 and grows by exactly one per loop
\* iteration; TimedOut is reached only from the sleep of attempt 60; a
\* terminal state is never left and nothing runs in it.
C13_StateMachine ==
    [][/\ (Phase = "Submitting") => Phase' \in {"Submitting", "Polling"} \cup Terminal
       /\ (Phase = "Polling") => Phase' \in {"Polling"} \cup Terminal
       /\ (Phase \in Terminal) => (Phase' = Phase /\ Quiet /\ UNCHANGED i)
       /\ (Phase' = "Polling") => (i' + 1) \in 1..60
       /\ (Phase = "Submitting" /\ Phase' = "Polling") => (i' = 0 /\ posts' = 1)
       /\ (Phase = "Polling" /\ Phase' = "Polling") =>
            IF pc = "delay" /\ pc' = "awaitGet" THEN i' = i + 1 ELSE i' = i
       /\ (Phase' = "TimedOut") => (Phase = "Polling" /\ pc = "delay" /\ i = 59)
       /\ (pc' = "done") = (result'.state # "pending")]_vars

\* C13 witness: Polling at attempt 60
C13_Witness ==
    /\ Phase = "Polling"
    /\ pc = "awaitGet"
    /\ i + 1 = 60

\* C14: a poll attempt that is rejected without a status ends the call at
\* once with an error carrying the failure's message and no status: no
\* sleep, no further GET and no checkCanceled() follow.
C14_TransportFailureFails ==
    [][/\ (/\ pc = "awaitGet"
           /\ pc' # "awaitGet"
           /\ receivedStatus' = Undefined) =>
            /\ pc' = "done"
            /\ response' = Undefined
            /\ result' = Rejected([name |-> "Error",
                                   message |-> <<"Received response from Xray: ",
                                                 MsgToString(message')>>])
            /\ gets' = gets
            /\ delayCalls' = delayCalls
            /\ timers' = 0
            /\ checkCanceledCalls' = checkCanceledCalls
            /\ inflight' = <<>>
       /\ (pc = "done") => Quiet]_vars

\* C14 witness: a network error on the second attempt
C14_Witness ==
    /\ pc = "done"
    /\ receivedStatus = Undefined
    /\ message = Some("Network Error")
    /\ result.state = "rejected"
    /\ result.reason.message = <<"Received response from Xray: ", "Network Error">>
    /\ gets = 2

\* C15: every call eventually settles (Complete, Failed, TimedOut or
\* Canceled), and at every moment it has issued at most one POST, at most 60
\* GETs and at most 60 sleeps.
C15_Terminates ==
    /\ <>(pc = "done" /\ Phase \in Terminal /\ inflight = <<>> /\ timers = 0)
    /\ [](posts <= 1 /\ gets <= 60 /\ delayCalls <= 60)

\* C15 witness: the call ended on its 60th attempt after 59 sleeps
C15_Witness ==
    /\ pc = "done"
    /\ posts = 1
    /\ gets = 60
    /\ delayCalls = 59
    /\ result.state = "fulfilled"

\* C16: a call never issues more than one POST, and one that has a request
\* and passed the check before the submit has issued exactly one; the scan
\* identifier is the one the POST answered with, it is set by the step that
\* receives that answer and never changes afterwards; every GET of the call
\* targets api/v1/scan/graph/<that identifier>.
C16_OneScanId ==
    [][/\ posts' <= 1
       /\ Cardinality({r \in sent' : r.method = "POST"}) = posts'
       /\ (request # Undefined /\ pc' # "start"
             /\ ~(result' = Rejected(CancelError) /\ checkCanceledCalls' = 1)) =>
            posts' = 1
       /\ (scanId' # scanId) =>
            /\ pc = "awaitPost"
            /\ scanId = Undefined
            /\ scanId' \in {Some(id) : id \in ScanIds}
       /\ (gets' > 0) => scanId' # Undefined
       /\ \A r \in sent' : r.method = "GET" =>
            /\ Len(r.url) >= 3
            /\ SubSeq(r.url, 1, 3) = <<scanGraphEndpoint, "/", scanId'[1]>>
            /\ inflight' \in {<<>>, <<r>>}]_vars

\* C16 witness: several polls of the scan the POST answered with
C16_Witness ==
    /\ scanId = Some("scan2")
    /\ posts = 1
    /\ gets = 3
    /\ pc = "awaitGet"

\* C17: the step that receives a delivered 202 response starts exactly one
\* sleep, on every attempt including the 60th, and no other step starts one,
\* so the sleeps of a call are as many as its delivered 202 responses; the
\* timeout is thrown only by the step in which the timer of the sleep of
\* attempt 60 fires, and that step does not invoke checkCanceled().
C17_SleepAfterEvery202 ==
    [][/\ (/\ pc = "awaitGet"
           /\ receivedStatus' = Some(202)
           /\ response' # Undefined) =>
            /\ delayCalls' = delayCalls + 1
            /\ timers' = 1
            /\ pc' = "delay"
            /\ result' = Pending
       /\ (delayCalls' # delayCalls) =>
            /\ delayCalls' = delayCalls + 1
            /\ pc = "awaitGet"
            /\ receivedStatus' = Some(202)
            /\ response' # Undefined
       /\ (timers' > timers) => delayCalls' = delayCalls + 1
       /\ delayCalls' = (IF pc' = "delay" THEN i' + 1 ELSE i')
       /\ (result' = Rejected(timeoutError) /\ result = Pending) =>
            /\ pc = "delay"
            /\ timers = 1
            /\ timers' = 0
            /\ delayCalls' = 60
            /\ gets' = 60
            /\ checkCanceledCalls' = checkCanceledCalls]_vars

\* C17 witness: the sleep that follows the 202 of attempt 60
C17_Witness ==
    /\ pc = "delay"
    /\ timers = 1
    /\ i = 59
    /\ gets = 60
    /\ delayCalls = 60
    /\ receivedStatus = Some(202)

\* C18: when the POST settles without yielding a scan identifier (the
\* transport rejected it), the same step ends the call with the transport's
\* error: checkCanceled() is not invoked again, no GET is issued, no sleep is
\* started, and the sink holds 100.
C18_SubmitFailure ==
    [][/\ (pc = "awaitPost" /\ pc' # "awaitPost" /\ scanId' = Undefined) =>
            /\ pc' = "done"
            /\ result'.state = "rejected"
            /\ result'.reason.name = "RequestError"
            /\ result'.reason.message \in ReasonMessages
            /\ checkCanceledCalls' = 1
            /\ posts' = 1
            /\ gets' = 0
            /\ delayCalls' = 0
            /\ timers' = 0
            /\ inflight' = <<>>
            /\ progress' = 100
            /\ lastSetBy' = "finally"
       /\ (pc = "done") => Quiet]_vars

\* C18 witness: the POST was rejected although a cancellation is pending
C18_Witness ==
    /\ pc = "done"
    /\ result.state = "rejected"
    /\ result.reason.name = "RequestError"
    /\ cancelRequested
    /\ posts = 1
    /\ progress = 100

\* C19: a call without a request never invokes checkCanceled(), and it
\* fulfils with the empty response also when the cancel signal is set: it
\* never ends with the cancel error.
C19_EmptyRequestIgnoresCancel ==
    (request = Undefined) =>
        /\ checkCanceledCalls = 0
        /\ result # Rejected(CancelError)
        /\ Phase # "Canceled"
        /\ pc = "done" => (result = Fulfilled(EmptyResponse) /\ Phase = "Complete")

\* C19 witness: the call without a request returned with the signal set
C19_Witness ==
    /\ request = Undefined
    /\ cancelRequested
    /\ pc = "done"
    /\ result = Fulfilled(EmptyResponse)

\* C20 (as stated): a call that has a request fulfils only with the body of
\* a response the transport delivered with status 200, and a poll attempt
\* whose transport call rejects ends the call in failure whatever status the
\* rejection carries: no fulfilment, no sleep and no further poll follow.
C20_OnlyDeliveredResponsesCount ==
    [][/\ (request # Undefined /\ result'.state = "fulfilled") =>
            /\ result'.value \in {Some(b) : b \in Bodies}
            /\ receivedStatus' = Some(200)
       /\ (pc = "awaitGet" /\ pc' # "awaitGet" /\ response' = Undefined) =>
            /\ pc' = "done"
            /\ result'.state = "rejected"
            /\ gets' = gets
            /\ delayCalls' = delayCalls]_vars

\* everything the call c owns: its arguments, its locals, its sink, its
\* pending requests and timers, its promise
CallState(c) ==
    <<request[c], projectKey[c], cancelRequested[c], pc[c], i[c], scanId[c],
      scanGraphUrl[c], receivedStatus[c], message[c], response[c], progress[c],
      lastSetBy[c], inflight[c], sent[c], posts[c], gets[c],
      checkCanceledCalls[c], delayCalls[c], timers[c], result[c]>>

\* under interleaving the call c still is what its own inputs, answers and
\* cancel signal make it: its counts follow its own loop counter, its GETs
\* target its own scan identifier, its sink holds what its own answers and
\* its own finally wrote, and its outcome is that of its own last attempt
OwnOutcome(c) ==
    /\ posts[c] <= 1
    /\ gets[c] = (IF pc[c] \in {"awaitGet", "delay"} THEN i[c] + 1
                  ELSE IF result[c] = Rejected(timeoutError) THEN 60
                  ELSE IF result[c] = Rejected(CancelError) THEN i[c]
                  ELSE IF scanId[c] = Undefined THEN 0 ELSE i[c] + 1)
    /\ delayCalls[c] = (IF pc[c] = "delay" THEN i[c] + 1 ELSE i[c])
    /\ checkCanceledCalls[c] = posts[c] + gets[c]
          + (IF result[c] = Rejected(CancelError) THEN 1 ELSE 0)
    /\ timers[c] = (IF pc[c] = "delay" THEN 1 ELSE 0)
    /\ Len(inflight[c]) = (IF pc[c] \in {"awaitPost", "awaitGet"} THEN 1 ELSE 0)
    /\ \A r \in sent[c] :
        /\ r.method = "POST" => r.url = submitUrl(ProjectKeyOf(c))
        /\ r.method = "GET" =>
            /\ scanId[c] = Some(ScanIdOf(c))
            /\ SubSeq(r.url, 1, 3) = <<scanGraphEndpoint, "/", ScanIdOf(c)>>
            /\ \A d \in Calls \ {c} : r \notin sent[d]
    /\ (pc[c] = "done") = (result[c].state # "pending")
    /\ pc[c] = "done" => (progress[c] = 100 /\ lastSetBy[c] = "finally")
    /\ (pc[c] = "delay" /\ hasProgress(response[c][1])) =>
          progress[c] = response[c][1].progress_percentage[1]
    /\ pc[c] # "done" => progress[c] \in {0, 40}
    /\ result[c] = Rejected(CancelError) => cancelRequested[c]
    /\ (result[c].state = "fulfilled" /\ request[c] # Undefined) =>
          (receivedStatus[c] = Some(200) /\ result[c].value = response[c])
    /\ (result[c].state = "rejected"
          /\ result[c].reason \notin {CancelError, timeoutError}
          /\ scanId[c] # Undefined) =>
          result[c].reason = unexpectedError(receivedStatus[c], message[c])

\* the next step of c can be taken whatever the other calls are doing
CanGoOn(c) ==
    /\ pc[c] = "start" => ENABLED (graphEmptyOf(c) \/ graphSubmitOf(c))
    /\ pc[c] = "awaitPost" => (ENABLED postResolveOf(c) /\ ENABLED postRejectOf(c))
    /\ pc[c] = "awaitGet" => (ENABLED getResolveOf(c) /\ ENABLED getRejectOf(c))
    /\ pc[c] = "delay" => ENABLED delayElapsedOf(c)

\* C11: with two calls running on one client, every step changes what one
\* call owns and leaves everything the other call owns as it is; each call
\* has the outcome, the request counts and the sink value of its own inputs
\* and answers; and while a call sleeps the other call can take its next
\* step (issue its next poll, receive an answer, terminate).
C11_CallsIndependent ==
    /\ [][\A c \in Calls :
            (CallState(c)' # CallState(c)) =>
                \A d \in Calls \ {c} : CallState(d)' = CallState(d)]_vars
    /\ [](\A c \in Calls : OwnOutcome(c))
    /\ [](\A c \in Calls, d \in Calls :
            (c # d /\ pc[d] = "delay") => CanGoOn(c))

\* C11 witness: b has polled six times and is awaiting an answer while a,
\* after two polls, sleeps with another progress value in its sink
C11_Witness ==
    /\ pc["a"] = "delay"
    /\ i["a"] = 1
    /\ progress["a"] = 0
    /\ pc["b"] = "awaitGet"
    /\ i["b"] = 5
    /\ progress["b"] = 40
    /\ cancelRequested["a"]
    /\ ~cancelRequested["b"]
====
